---- MODULE Spec2Model ----
(***************************************************************************)
(* Model of src/sensor.c: the Contiki process sensor_reading_process and   *)
(* the helpers it calls (d1, d2, getTemperature, getLight, sqrt,           *)
(* getMedian).                                                             *)
(*                                                                         *)
(* Numbers.  A C float is modelled as a fixed-point number: an integer     *)
(* count of thousandths (the resolution the program prints with %03u).     *)
(* 22.888 is 22888.  Sums and differences are exact; products and          *)
(* quotients are rounded toward zero to a thousandth (FMul, FDiv).  The    *)
(* sensor inputs are bounded so that every intermediate value fits TLC's   *)
(* 32-bit integers; the one place where the code's value would not fit     *)
(* (x*x in the first Newton steps of sqrt) is handled in sqrt.             *)
(*                                                                         *)
(* Arrays.  A C array a[0..n-1] is the sequence a[1..n]: C index i is      *)
(* TLA+ index i+1.                                                         *)
(***************************************************************************)
EXTENDS Integers, Sequences, FiniteSets, TLC

VARIABLES
  pc,                \* position of the process / of the function under check
  timer,             \* the etimer: "unset" or "armed"
  readcount,         \* static int readcount
  B,                 \* static float B[12]: light window
  T,                 \* static float T[12]: temperature window
  Sum, Mean, SumofDistSquares, StdDev,
  AggrElementsCount,
  X,                 \* static float X[12]
  slopes,            \* static float slopes[144]
  slopes_count,
  median_slope,
  offsets,           \* static float offsets[12]
  median_offset,
  EstT,              \* static float EstT[12]
  out,               \* what the last step printed, in order
  oob,               \* TRUE once an array was read outside its bounds
  ticks,             \* number of sampling steps processed so far
  delivered,         \* the event the process was last resumed with
  fed                \* the inputs fed so far (readings; a function's argument)

vars == <<pc, timer, readcount, B, T, Sum, Mean, SumofDistSquares, StdDev,
          AggrElementsCount, X, slopes, slopes_count, median_slope, offsets,
          median_offset, EstT, out, oob, ticks, delivered, fed>>

\* the statics of the classification block, of the regression block
aggrVars == <<Sum, Mean, SumofDistSquares, StdDev, AggrElementsCount, X>>
regrVars == <<slopes, slopes_count, median_slope, offsets, median_offset, EstT>>

(***************************************************************************)
(* Program constants                                                       *)
(***************************************************************************)
Scale == 1000          \* thousandths: the 1000 of d2, the %03u of printf
WinLen == 12           \* B[12], T[12], X[12], offsets[12], EstT[12]
SlopesLen == 144       \* slopes[144]
k == 6                 \* static int k = 6
SqrtIter == 50         \* for (i=0; i<50; i++)
SqrtGuess == 10000     \* float x = 10.0
SqrtError == 1         \* float error = 0.001
TierLow == 100000      \* if (StdDev<100)
TierHigh == 1000000    \* if (StdDev<1000)

(***************************************************************************)
(* Bounds of the model                                                     *)
(***************************************************************************)
MaxTicks == 25         \* sampling steps explored by the driver
MaxChanges == 1        \* times the sensed values differ from the tick before
SqrtCap == 1400000     \* largest guess of sqrt whose square is formed
SqrtHuge == 2000000000 \* stands for a square above the number range

\* events Contiki delivers to the process: the etimer's, and the broadcast
\* of the sensors process
PROCESS_EVENT_TIMER == "PROCESS_EVENT_TIMER"
OtherEvents == {"sensors_event"}

\* raw ADC codes the two sensors return in the driver runs, read together
Readings == { <<10, 980>>, <<260, 1000>> }

\* what a read one element before a static array may find
Garbage == {-7777, 0, 123456}

(***************************************************************************)
(* Fixed-point arithmetic                                                  *)
(***************************************************************************)
Abs(a) == IF a < 0 THEN -a ELSE a

Sgn(a, b) == IF (a < 0) = (b < 0) THEN 1 ELSE -1

\* C's integer division and float-to-int conversion: toward zero
TDiv(a, b) == Sgn(a, b) * (Abs(a) \div Abs(b))

\* a*b rounded toward zero to a thousandth, without forming a*b
FMulNat(a, b) ==
  LET qa == a \div Scale  ra == a % Scale
      qb == b \div Scale  rb == b % Scale
  IN  qa * b + ra * qb + ((ra * rb) \div Scale)

FMul(a, b) == Sgn(a, b) * FMulNat(Abs(a), Abs(b))

\* a/b rounded toward zero to a thousandth: long division, three digits
FDivNat(a, b) ==
  LET q0 == a \div b              r0 == a % b
      q1 == (r0 * 10) \div b      r1 == (r0 * 10) % b
      q2 == (r1 * 10) \div b      r2 == (r1 * 10) % b
      q3 == (r2 * 10) \div b
  IN  q0 * Scale + q1 * 100 + q2 * 10 + q3

FDiv(a, b) == Sgn(a, b) * FDivNat(Abs(a), Abs(b))

Zeros(n) == [i \in 1..n |-> 0]

RECURSIVE SumSeq(_, _, _)
\* s[lo] + ... + s[hi], added left to right
SumSeq(s, lo, hi) == IF lo > hi THEN 0 ELSE SumSeq(s, lo, hi - 1) + s[hi]

(***************************************************************************)
(* Formatting: d1, d2 and printf("%d.%03u", d1(f), d2(f))                  *)
(***************************************************************************)
\* int d1(float f) { return((int)f); }
d1(f) == TDiv(f, Scale)

\* unsigned int d2(float f): 1000*(f-d1(f)) if f>0, else 1000*(d1(f)-f)
d2(f) == IF f > 0 THEN f - Scale * d1(f) ELSE Scale * d1(f) - f

DigitChar(d) == <<"0", "1", "2", "3", "4", "5", "6", "7", "8", "9">>[d + 1]

RECURSIVE Digits(_)
\* the decimal digits of a natural number, as printf prints them
Digits(n) == IF n < 10 THEN <<DigitChar(n)>>
             ELSE Append(Digits(n \div 10), DigitChar(n % 10))

\* printf's %d
FmtD(n) == IF n < 0 THEN <<"-">> \o Digits(-n) ELSE Digits(n)

\* printf's %03u
Fmt03u(n) == LET ds == Digits(n)
             IN  IF Len(ds) >= 3 THEN ds
                 ELSE SubSeq(<<"0", "0", "0">>, 1, 3 - Len(ds)) \o ds

\* printf("%d.%03u", d1(f), d2(f)): the text a value is printed as
Render(f) == FmtD(d1(f)) \o <<".">> \o Fmt03u(d2(f))

\* printArray: the first n elements of Arr, each rendered
printArray(Arr, n) == [i \in 1..n |-> Render(Arr[i])]

(***************************************************************************)
(* Sensor value translators                                                *)
(***************************************************************************)
\* temp_c = 0.04*tempADC - 39.6
getTemperature(tempADC) == 40 * tempADC - 39600

\* light_lx = 0.625*1e6 * ((1.5*raw/4096)/100000) * 1000 = raw*9375/4096;
\* the three float steps keep their relative precision, the product is
\* rounded to a thousandth once: raw * 9375000 / 4096 = raw * 1171875 / 512
getLight(raw) == (raw * 1171875) \div 512

(***************************************************************************)
(* sqrt: Newton's method                                                   *)
(***************************************************************************)
\* |x*x - S|.  For x above SqrtCap the square does not fit the model's
\* integers.  Every S the model feeds is below SqrtCap squared, so there
\* x*x - S is positive and far above the tolerance: the test fails.
SqrtDiff(x, S) == IF x > SqrtCap THEN SqrtHuge ELSE Abs(FMul(x, x) - S)

RECURSIVE SqrtLoop(_, _, _)
\* one pass of the for loop with counter i and current guess x
SqrtLoop(i, x, S) ==
  IF i >= SqrtIter THEN x
  ELSE LET nx == FMul(500, x + FDiv(S, x))
       IN  IF SqrtDiff(nx, S) < SqrtError THEN nx
           ELSE SqrtLoop(i + 1, nx, S)

sqrt(S) == SqrtLoop(0, SqrtGuess, S)

(***************************************************************************)
(* getMedian: exchange sort in place, then the middle                      *)
(***************************************************************************)
\* (mutant of Exchange: the swap without the temporary, TS[i] is lost)
ExchangeLost(TS, i, j) ==
  IF TS[i + 1] > TS[j + 1] THEN [TS EXCEPT ![i + 1] = TS[j + 1]] ELSE TS

\* if (TS[i] > TS[j]) { intermed = TS[i]; TS[i] = TS[j]; TS[j] = intermed; }
Exchange(TS, i, j) ==
  IF TS[i + 1] > TS[j + 1]
  THEN [TS EXCEPT ![i + 1] = TS[j + 1], ![j + 1] = TS[i + 1]]
  ELSE TS

RECURSIVE SortInner(_, _, _, _)
\* TS after the inner loop's passes j = lo, ..., hi, in that order.  The
\* range is run as its first half, then its second half; the test on Len
\* makes TLC compute the first half before it starts the second.
SortInner(TS, i, lo, hi) ==
  IF lo > hi THEN TS
  ELSE IF lo = hi THEN Exchange(TS, i, lo)
  ELSE LET mid  == (lo + hi) \div 2
           left == SortInner(TS, i, lo, mid)
       IN  IF Len(left) = Len(TS) THEN SortInner(left, i, mid + 1, hi)
           ELSE left

RECURSIVE SortOuter(_, _, _, _)
\* TS after the outer loop's passes i = lo, ..., hi, in that order; pass i
\* is the inner loop for (j=i+1; j<=n-1; j++)
SortOuter(TS, lo, hi, n) ==
  IF lo > hi THEN TS
  ELSE IF lo = hi THEN SortInner(TS, lo, lo + 1, n - 1)
  ELSE LET mid  == (lo + hi) \div 2
           left == SortOuter(TS, lo, mid, n)
       IN  IF Len(left) = Len(TS) THEN SortOuter(left, mid + 1, hi, n)
           ELSE left

\* the array after both loops: for (i=0; i<n-1; i++)
Sort(TS, n) == SortOuter(TS, 0, n - 2, n)

\* TS[idx] for a C index idx; index -1 is outside the array and reads `before`
ReadAt(TS, idx, before) == IF idx < 0 THEN before ELSE TS[idx + 1]

\* the median of the sorted array, as lines 129-132 take it
MedianOf(TS, n, before) ==
  IF n % 2 = 0
  THEN FDiv(ReadAt(TS, (n \div 2) - 1, before) + ReadAt(TS, n \div 2, before),
            2 * Scale)
  ELSE ReadAt(TS, n \div 2, before)

\* float getMedian(float TS[144], int n): the array as left behind (the sort
\* touches elements 0..n-1 only), the value returned, and whether an element
\* outside the array was read
getMedian(TS, n, before) ==
  LET sorted == Sort(SubSeq(TS, 1, n), n) \o SubSeq(TS, n + 1, Len(TS))
  IN  [TS |-> sorted,
       median |-> MedianOf(sorted, n, before),
       oob |-> (n % 2 = 0 /\ (n \div 2) - 1 < 0)]

(***************************************************************************)
(* Activity measurement and aggregation (lines 211-261)                    *)
(***************************************************************************)
RECURSIVE DistSquares(_, _, _)
\* SumofDistSquares after the loop has added elements 0..i-1
DistSquares(Bw, mean, i) ==
  IF i = 0 THEN 0
  ELSE DistSquares(Bw, mean, i - 1) + FMul(Bw[i] - mean, Bw[i] - mean)

\* (mutant of AggrCount: the thresholds taken inclusive)
AggrCountInclusive(sd) ==
  IF sd <= TierLow THEN 1 ELSE IF sd <= TierHigh THEN 3 ELSE 12

\* the tier: if (StdDev<100) 1 else if (StdDev<1000) 3 else 12
AggrCount(sd) == IF sd < TierLow THEN 1 ELSE IF sd < TierHigh THEN 3 ELSE 12

\* (mutant of Aggregate: the single value is the sum, not divided by 12)
AggregateSum(n, Bw, Xold) ==
  IF n = 1 THEN [Xold EXCEPT ![1] = SumSeq(Bw, 1, 12)]
  ELSE IF n = 3
  THEN [Xold EXCEPT ![1] = FDiv(SumSeq(Bw, 1, 4), 4 * Scale),
                    ![2] = FDiv(SumSeq(Bw, 5, 8), 4 * Scale),
                    ![3] = FDiv(SumSeq(Bw, 9, 12), 4 * Scale)]
  ELSE IF n = 12 THEN [i \in 1..WinLen |-> Bw[i]]
  ELSE Xold

\* X after the three if blocks that fill it; elements past n keep their value
Aggregate(n, Bw, Xold) ==
  IF n = 1
  THEN [Xold EXCEPT ![1] = FDiv(SumSeq(Bw, 1, 12), 12 * Scale)]
  ELSE IF n = 3
  THEN [Xold EXCEPT ![1] = FDiv(SumSeq(Bw, 1, 4), 4 * Scale),
                    ![2] = FDiv(SumSeq(Bw, 5, 8), 4 * Scale),
                    ![3] = FDiv(SumSeq(Bw, 9, 12), 4 * Scale)]
  ELSE IF n = 12 THEN [i \in 1..WinLen |-> Bw[i]]
  ELSE Xold

\* the block as a whole: every static it assigns
Classify(Bw, Xold) ==
  LET sum  == SumSeq(Bw, 1, WinLen)
      mean == FDiv(sum, WinLen * Scale)
      sds  == DistSquares(Bw, mean, WinLen)
      sd   == sqrt(sds)
      n    == AggrCount(sd)
  IN  [Sum |-> sum, Mean |-> mean, SumofDistSquares |-> sds, StdDev |-> sd,
       AggrElementsCount |-> n, X |-> Aggregate(n, Bw, Xold)]

(***************************************************************************)
(* Theil-Sen regression (lines 292-318)                                    *)
(***************************************************************************)
\* (mutant of SlopeStep: the denominator's operands swapped)
SlopeStepSwapped(Bw, Tw, i, j, acc) ==
  IF Bw[i + 1] # Bw[j + 1]
  THEN Append(acc, FDiv(Tw[j + 1] - Tw[i + 1], Bw[i + 1] - Bw[j + 1]))
  ELSE acc

\* if (B[i] != B[j]) slopes[slopes_count++] = (T[j]-T[i]) / (B[j]-B[i]);
SlopeStep(Bw, Tw, i, j, acc) ==
  IF Bw[i + 1] # Bw[j + 1]
  THEN Append(acc, FDiv(Tw[j + 1] - Tw[i + 1], Bw[j + 1] - Bw[i + 1]))
  ELSE acc

RECURSIVE SlopeInner(_, _, _, _, _)
\* slopes[0..count-1] after the inner loop's passes i+1, ..., j, from acc
SlopeInner(Bw, Tw, i, j, acc) ==
  IF j <= i THEN acc
  ELSE SlopeStep(Bw, Tw, i, j, SlopeInner(Bw, Tw, i, j - 1, acc))

RECURSIVE SlopeOuter(_, _, _)
\* slopes[0..count-1] after the outer loop's passes 0, ..., i
SlopeOuter(Bw, Tw, i) ==
  IF i < 0 THEN <<>>
  ELSE LET prev == SlopeOuter(Bw, Tw, i - 1)
       IN  \* (the test makes TLC compute prev before the inner loop runs)
           IF Len(prev) >= 0 THEN SlopeInner(Bw, Tw, i, WinLen - 1, prev)
           ELSE prev

\* slopes_count = 0; for (i=0;i<12;i++) for (j=i+1;j<12;j++) ...
Slopes(Bw, Tw) == SlopeOuter(Bw, Tw, WinLen - 1)

\* the block as a whole; `before` is what a read of slopes[-1] finds
Regress(Bw, Tw, slopesOld, before) ==
  LET found == Slopes(Bw, Tw)
      cnt   == Len(found)
      sl    == found \o SubSeq(slopesOld, cnt + 1, SlopesLen)
      ms    == getMedian(sl, cnt, before)
      offs  == [i \in 1..WinLen |-> Tw[i] - FMul(ms.median, Bw[i])]
      mo    == getMedian(offs, WinLen, before)
  IN  [slopes |-> ms.TS, slopes_count |-> cnt, median_slope |-> ms.median,
       offsets |-> mo.TS, median_offset |-> mo.median,
       EstT |-> [i \in 1..WinLen |-> FMul(ms.median, Bw[i]) + mo.median],
       oob |-> ms.oob \/ mo.oob]

(***************************************************************************)
(* The process sensor_reading_process                                      *)
(***************************************************************************)
\* (mutant of NextCount: the counter wraps to 0)
NextCountToZero(c) == IF c < 12 THEN c + 1 ELSE 0

\* if (readcount<12) readcount++; else readcount = 1;
NextCount(c) == IF c < 12 THEN c + 1 ELSE 1

\* (mutant of Push: the shift stops one element early, i<10)
PushShort(W, v) ==
  [i \in 1..WinLen |-> IF i < WinLen - 1 THEN W[i + 1]
                       ELSE IF i = WinLen - 1 THEN W[i] ELSE v]

\* for (i=0;i<11;i++) W[i] = W[i+1];  W[11] = v;
Push(W, v) == [i \in 1..WinLen |-> IF i < WinLen THEN W[i + 1] ELSE v]

\* (mutant of DoClassify: only the first half of the cycle)
DoClassifyOnce(c) == c = k

\* if (readcount==k || readcount==2*k)
DoClassify(c) == c = k \/ c = 2 * k

\* if (readcount == 12)
DoRegress(c) == c = 12

\* PROCESS_WAIT_EVENT_UNTIL(ev=PROCESS_EVENT_TIMER): the condition is an
\* assignment, whose value is PROCESS_EVENT_TIMER (0x88), never zero; the
\* wait ends on whatever event resumes the process
WaitCondition(ev) == TRUE

AllEqual(W) == \A i \in 1..WinLen : W[i] = W[1]

\* the values a read of slopes[-1] may find; it is read only when no slope
\* was stored, that is when all light values are equal
BeforeSlopes(Bw) == IF AllEqual(Bw) THEN Garbage ELSE {0}

\* one printed report: "sample" is lines 205-206 (light, temperature),
\* "classification" lines 264-286 (recorded by its array X), "regression"
\* lines 321-334 (recorded by its array EstT); the other lines of a report
\* print statics the state already holds
Report(kind, vals) == [kind |-> kind, vals |-> vals]

\* the statics of the two blocks as they stand, for a pass that skips a block
AggrNow == [Sum |-> Sum, Mean |-> Mean, SumofDistSquares |-> SumofDistSquares,
            StdDev |-> StdDev, AggrElementsCount |-> AggrElementsCount,
            X |-> X]

RegrNow == [slopes |-> slopes, slopes_count |-> slopes_count,
            median_slope |-> median_slope, offsets |-> offsets,
            median_offset |-> median_offset, EstT |-> EstT, oob |-> FALSE]

\* one pass of the while(1) body after the wait: lines 179-337.
\* c and g are the statics after the classification and regression blocks.
SampleStep(raw, before) ==
  LET temp_c   == getTemperature(raw[2])
      light_lx == getLight(raw[1])
      rc  == NextCount(readcount)
      nB  == Push(B, light_lx)
      nT  == Push(T, temp_c)
  IN  \E c \in {IF DoClassify(rc) THEN Classify(nB, X) ELSE AggrNow} :
      \E g \in {IF DoRegress(rc) THEN Regress(nB, nT, slopes, before)
                ELSE RegrNow} :
        /\ readcount' = rc
        /\ B' = nB
        /\ T' = nT
        /\ Sum' = c.Sum
        /\ Mean' = c.Mean
        /\ SumofDistSquares' = c.SumofDistSquares
        /\ StdDev' = c.StdDev
        /\ AggrElementsCount' = c.AggrElementsCount
        /\ X' = c.X
        /\ slopes' = g.slopes
        /\ slopes_count' = g.slopes_count
        /\ median_slope' = g.median_slope
        /\ offsets' = g.offsets
        /\ median_offset' = g.median_offset
        /\ EstT' = g.EstT
        /\ oob' = (oob \/ g.oob)
        /\ out' = <<Report("sample", <<Render(light_lx), Render(temp_c)>>)>>
                  \o (IF DoClassify(rc)
                      THEN <<Report("classification",
                                    printArray(c.X, c.AggrElementsCount))>>
                      ELSE <<>>)
                  \o (IF DoRegress(rc)
                      THEN <<Report("regression", printArray(g.EstT, WinLen))>>
                      ELSE <<>>)
        /\ timer' = "armed"
        /\ ticks' = ticks + 1
        /\ fed' = Append(fed, <<light_lx, temp_c>>)
        /\ pc' = "wait"

\* the number of times consecutive readings of a run differ
Changes(rs) == Cardinality({i \in 1..(Len(rs) - 1) : rs[i] # rs[i + 1]})

\* the readings the sensors' drivers may return next
NextReadings ==
  {raw \in Readings :
     Changes(Append(fed, <<getLight(raw[1]), getTemperature(raw[2])>>))
       <= MaxChanges}

\* the process is resumed with event ev while it waits at line 177
Deliver(ev, raw) ==
  /\ pc = "wait"
  /\ ticks < MaxTicks
  /\ delivered' = ev
  /\ IF WaitCondition(ev)
     THEN \E before \in BeforeSlopes(Push(B, getLight(raw[1]))) :
             SampleStep(raw, before)
     ELSE UNCHANGED <<pc, timer, readcount, B, T, aggrVars, regrVars, out,
                      oob, ticks, fed>>

\* the process is started (PROCESS_EVENT_INIT) and runs from PROCESS_BEGIN()
\* to the first wait: lines 169-177
Begin ==
  /\ pc = "begin"
  /\ pc' = "wait"
  /\ timer' = "armed"
  /\ delivered' = "PROCESS_EVENT_INIT"
  /\ UNCHANGED <<readcount, B, T, aggrVars, regrVars, out, oob, ticks, fed>>

\* the etimer expires and posts PROCESS_EVENT_TIMER
TimerEvent ==
  /\ timer = "armed"
  /\ \E raw \in NextReadings : Deliver(PROCESS_EVENT_TIMER, raw)

\* any other event is posted or broadcast to the process
OtherEvent == \E ev \in OtherEvents, raw \in NextReadings : Deliver(ev, raw)

\* the statics as the C initialisers leave them (lines 144-167): the windows,
InitWindows == B = Zeros(WinLen) /\ T = Zeros(WinLen)

\* the statics of the classification block,
InitAggr ==
  /\ Sum = 0 /\ Mean = 0 /\ SumofDistSquares = 0 /\ StdDev = 0
  /\ AggrElementsCount = 0
  /\ X = Zeros(WinLen)

\* the statics of the regression block,
InitRegr ==
  /\ slopes = Zeros(SlopesLen)
  /\ slopes_count = 0
  /\ median_slope = 0
  /\ offsets = Zeros(WinLen)
  /\ median_offset = 0
  /\ EstT = Zeros(WinLen)

\* and the process before it is started
InitProcess ==
  /\ timer = "unset"
  /\ readcount = 0
  /\ out = <<>>
  /\ oob = FALSE
  /\ ticks = 0
  /\ delivered = "none"

Init ==
  InitProcess /\ InitWindows /\ InitAggr /\ InitRegr /\ pc = "begin" /\ fed = <<>>

Next == Begin \/ TimerEvent \/ OtherEvent

Spec == Init /\ [][Next]_vars

(***************************************************************************)
(* Claims about the driver, checked under Spec                             *)
(***************************************************************************)
\* the kinds of report the last step printed, in order
Kinds == [i \in 1..Len(out) |-> out[i].kind]

Printed(kind) == \E i \in 1..Len(out) : out[i].kind = kind

\* the last reading fed to the process
LastFed == fed[Len(fed)]

\* C1: counting processed ticks from 1, the classification report is printed
\* on tick n exactly when the counter after advancing is 6 or 12, which is
\* exactly when n mod 6 = 0; the regression report exactly when the counter
\* is 12, which is exactly when n mod 12 = 0; and when both are printed the
\* classification comes first (after the tick's sample line).
C1_ReportCadence ==
  ticks >= 1 =>
    /\ Printed("classification") <=> readcount \in {6, 12}
    /\ readcount \in {6, 12} <=> ticks % 6 = 0
    /\ Printed("regression") <=> readcount = 12
    /\ readcount = 12 <=> ticks % 12 = 0
    /\ Kinds = <<"sample">>
               \o (IF ticks % 6 = 0 THEN <<"classification">> ELSE <<>>)
               \o (IF ticks % 12 = 0 THEN <<"regression">> ELSE <<>>)

\* C1 witness: the 24th tick printed both reports, classification first
C1_Witness ==
  ticks = 24 /\ Kinds = <<"sample", "classification", "regression">>

\* C2 (as claimed): a step that delivers an event other than the timer event
\* takes no sample: the windows, the counter and the tick count are unchanged.
C2_OnlyTimerSamples ==
  [][delivered' # PROCESS_EVENT_TIMER => UNCHANGED <<B, T, readcount, ticks>>]_vars

\* C3 (as claimed): a regression on a window whose 12 light values are all
\* equal reads nothing outside the slope array: the median routine is not
\* evaluated with count 0 and does not index position -1.
C3_FlatWindowSafe ==
  (Printed("regression") /\ AllEqual(B)) => (slopes_count >= 1 /\ ~oob)

\* C4: every sampling step keeps both windows at length 12, moves each
\* element one place toward the head, and stores the light and temperature
\* read in that step in the last place of the two windows.
C4_Push ==
  [][ticks' = ticks + 1 =>
       /\ Len(B') = 12 /\ Len(T') = 12
       /\ \A i \in 1..11 : B'[i] = B[i + 1] /\ T'[i] = T[i + 1]
       /\ Len(fed') = Len(fed) + 1
       /\ B'[12] = fed'[Len(fed')][1]
       /\ T'[12] = fed'[Len(fed')][2]]_vars

\* C4 witness: after a full window of steps the two newest light values
\* differ and the newest is the reading of the last step
C4_Witness ==
  ticks >= 13 /\ B[11] # B[12] /\ B[12] = LastFed[1] /\ T[12] = LastFed[2]

\* the window a channel holds after the readings rs: zero fill, then the
\* last min(n, 12) readings in arrival order
WindowOf(rs, ch) ==
  [i \in 1..12 |-> IF i <= 12 - Len(rs) THEN 0 ELSE rs[Len(rs) - 12 + i][ch]]

\* C5: after n processed ticks each window is max(0, 12-n) zeros followed by
\* the last min(n, 12) readings, newest last; the classification of tick 6
\* sees 6 zeros then the 6 readings and, when StdDev < 100, prints one
\* value, the mean of that window; a regression is printed only when the
\* window holds 12 readings.
C5_WindowContent ==
  /\ Len(fed) = ticks
  /\ B = WindowOf(fed, 1)
  /\ T = WindowOf(fed, 2)
  /\ (ticks = 6 /\ StdDev < TierLow) =>
        /\ \A i \in 1..6 : B[i] = 0 /\ B[i + 6] = fed[i][1]
        /\ AggrElementsCount = 1
        /\ X[1] = FDiv(SumSeq(B, 1, 12), 12 * Scale)
        /\ out[2] = Report("classification", <<Render(X[1])>>)
  /\ Printed("regression") =>
        /\ ticks >= 12
        /\ \A i \in 1..12 : B[i] = fed[ticks - 12 + i][1]
                         /\ T[i] = fed[ticks - 12 + i][2]

\* C5 witness: tick 6 with a low dispersion printed one aggregated value
C5_Witness ==
  /\ ticks = 6 /\ StdDev < TierLow /\ B[6] = 0 /\ B[7] # 0
  /\ Len(out) = 2 /\ Len(out[2].vals) = 1

C10_SignShown ==
  ticks >= 1 =>
    LET t == LastFed[2]  txt == out[1].vals[2]
    IN  /\ txt = Render(t)
        /\ t < 0 => Head(txt) = "-"
        /\ t # 0 => txt # Render(-t)

(***************************************************************************)
(* getMedian on its own: SpecMedian                                        *)
(* The array of count values is drawn from MedianValues; the call stores   *)
(* its result in median_slope and leaves slopes as getMedian left it.      *)
(***************************************************************************)
MaxCount == 4          \* the longest array getMedian is called with

MedianValues == {-2500, 1000, 2000, 3000, 4000}

\* the arrays of 1..MaxCount values
MedianInputs ==
  UNION {[1..n -> MedianValues] : n \in 1..MaxCount}

InitMedian ==
  /\ InitProcess /\ InitWindows /\ InitAggr
  /\ fed \in MedianInputs
  /\ slopes = fed \o Zeros(SlopesLen - Len(fed))
  /\ slopes_count = Len(fed)
  /\ median_slope = 0
  /\ offsets = Zeros(WinLen)
  /\ median_offset = 0
  /\ EstT = Zeros(WinLen)
  /\ pc = "getMedian"

\* median_slope = getMedian(slopes, slopes_count);
MedianCall ==
  /\ pc = "getMedian"
  /\ \E r \in {getMedian(slopes, slopes_count, 0)} :
       /\ slopes' = r.TS
       /\ median_slope' = r.median
       /\ oob' = r.oob
  /\ pc' = "returned"
  /\ UNCHANGED <<timer, readcount, B, T, aggrVars, slopes_count, offsets,
                 median_offset, EstT, out, ticks, delivered, fed>>

SpecMedian == InitMedian /\ [][MedianCall]_vars

\* how many times v occurs in the first n elements of s
Occurs(s, n, v) == Cardinality({i \in 1..n : s[i] = v})

Reverse(s) == [i \in 1..Len(s) |-> s[Len(s) + 1 - i]]

Rotate(s) == [i \in 1..Len(s) |-> s[(i % Len(s)) + 1]]

\* the value getMedian returns for the array s of Len(s) values
MedianValue(s) == getMedian(s, Len(s), 0).median

\* C9: for count >= 1 the call leaves the count values in ascending order
\* (the same values, each as often as in the input) and returns the middle
\* one when count is odd and the average of the two middle ones when count
\* is even; the result is that of the same values in reversed and in
\* rotated order, and nothing outside the array is read.
C9_Median ==
  pc = "returned" =>
    LET n == slopes_count
    IN  /\ n = Len(fed) /\ n >= 1
        /\ \A i \in 1..(n - 1) : slopes[i] <= slopes[i + 1]
        /\ \A v \in MedianValues : Occurs(slopes, n, v) = Occurs(fed, n, v)
        /\ n % 2 = 1 => median_slope = slopes[(n \div 2) + 1]
        /\ n % 2 = 0 =>
             median_slope
               = FDiv(slopes[n \div 2] + slopes[(n \div 2) + 1], 2 * Scale)
        /\ MedianValue(Reverse(fed)) = median_slope
        /\ MedianValue(Rotate(fed)) = median_slope
        /\ fed = <<1000, 2000, 3000, 4000>> => median_slope = 2500
        /\ fed = <<1000, 2000, 3000>> => median_slope = 2000
        /\ ~oob

\* C9 witness: an unsorted array of even count was sorted and its median is
\* the average of two different middle values
C9_Witness ==
  /\ pc = "returned"
  /\ fed = <<4000, 1000, 3000, 2000>>
  /\ SubSeq(slopes, 1, 4) = <<1000, 2000, 3000, 4000>>
  /\ median_slope = 2500

(***************************************************************************)
(* The classification block on its own: SpecAggr                           *)
(* The light window is drawn from windows whose dispersion lies on and     *)
(* next to the two thresholds: 8 values at a base level, 2 at base + d     *)
(* and 2 at base - d give a sum of squared distances of 4*d*d.             *)
(***************************************************************************)
MaxBase == 1           \* base light levels tried: 600 lx, 601 lx, ...

AggrBases == {600000 + 1000 * b : b \in 0..MaxBase}

AggrDists == {0, 49999, 50000, 50001, 499999, 500000, 500001}

\* the window with base + d at places r+1, r+2 and base - d at r+3, r+4
AggrWindow(base, d, r) ==
  [i \in 1..WinLen |-> IF i \in {r + 1, r + 2} THEN base + d
                       ELSE IF i \in {r + 3, r + 4} THEN base - d
                       ELSE base]

AggrWindows ==
  {AggrWindow(base, d, r) : base \in AggrBases, d \in AggrDists, r \in 0..8}

InitClassify ==
  /\ InitProcess /\ InitAggr /\ InitRegr
  /\ B \in AggrWindows
  /\ T = Zeros(WinLen)
  /\ fed = <<>>
  /\ pc = "classify"

\* lines 214-261 on the window B
ClassifyCall ==
  /\ pc = "classify"
  /\ \E c \in {Classify(B, X)} :
       /\ Sum' = c.Sum
       /\ Mean' = c.Mean
       /\ SumofDistSquares' = c.SumofDistSquares
       /\ StdDev' = c.StdDev
       /\ AggrElementsCount' = c.AggrElementsCount
       /\ X' = c.X
       /\ out' = <<Report("classification",
                          printArray(c.X, c.AggrElementsCount))>>
  /\ pc' = "returned"
  /\ UNCHANGED <<timer, readcount, B, T, regrVars, oob, ticks, delivered, fed>>

SpecAggr == InitClassify /\ [][ClassifyCall]_vars

\* the mean of the four elements from C index lo on
Mean4(W, lo) == FDiv(W[lo + 1] + W[lo + 2] + W[lo + 3] + W[lo + 4], 4 * Scale)

\* C7: the number of aggregated values follows from StdDev alone: below 100
\* one value, the mean of the 12 elements; from 100 up to but excluding 1000
\* three values, the means of elements 0-3, 4-7, 8-11 in that order; from
\* 1000 on twelve values, the window itself; and that many values are printed.
C7_Tiers ==
  pc = "returned" =>
    /\ AggrElementsCount \in {1, 3, 12}
    /\ Len(out[1].vals) = AggrElementsCount
    /\ StdDev < 100000 =>
         /\ AggrElementsCount = 1
         /\ X[1] = FDiv(SumSeq(B, 1, 12), 12 * Scale)
    /\ (100000 <= StdDev /\ StdDev < 1000000) =>
         /\ AggrElementsCount = 3
         /\ X[1] = Mean4(B, 0) /\ X[2] = Mean4(B, 4) /\ X[3] = Mean4(B, 8)
    /\ StdDev >= 1000000 =>
         /\ AggrElementsCount = 12
         /\ \A i \in 1..12 : X[i] = B[i]

\* C7 witness: a dispersion of exactly 100 gave three values
C7_Witness ==
  /\ pc = "returned" /\ StdDev = 100000 /\ AggrElementsCount = 3
  /\ X[1] # X[2]

(***************************************************************************)
(* The regression block on its own: SpecTS                                 *)
(* The light window is a pattern of three whole-lux levels repeated four   *)
(* times, each repetition raised by a step; the temperature window is      *)
(* slope * light + offset, which is exact for whole-lux light values.      *)
(***************************************************************************)
MaxLevel == 3          \* light levels of a pattern: 1 lx .. MaxLevel lx

LightPatterns == [1..3 -> {Scale * l : l \in 1..MaxLevel}]

LightSteps == {0, 3 * Scale}

\* the pattern p, repeated with each repetition raised by step
LightWindow(p, step) ==
  [i \in 1..WinLen |-> p[((i - 1) % 3) + 1] + step * ((i - 1) \div 3)]

LineSlopes == {2000, -500, 32}

LineOffsets == {0, -39600}

InitRegress ==
  /\ InitProcess /\ InitAggr /\ InitRegr
  /\ \E p \in LightPatterns, step \in LightSteps,
        m \in LineSlopes, c \in LineOffsets :
       /\ B = LightWindow(p, step)
       /\ T = [i \in 1..WinLen |-> FMul(m, LightWindow(p, step)[i]) + c]
       /\ fed = <<m, c>>
  /\ pc = "regress"

\* lines 294-318 on the windows B and T
RegressCall ==
  /\ pc = "regress"
  /\ \E before \in BeforeSlopes(B) :
     \E g \in {Regress(B, T, slopes, before)} :
       /\ slopes' = g.slopes
       /\ slopes_count' = g.slopes_count
       /\ median_slope' = g.median_slope
       /\ offsets' = g.offsets
       /\ median_offset' = g.median_offset
       /\ EstT' = g.EstT
       /\ oob' = g.oob
       /\ out' = <<Report("regression", printArray(g.EstT, WinLen))>>
  /\ pc' = "returned"
  /\ UNCHANGED <<timer, readcount, B, T, aggrVars, ticks, delivered, fed>>

SpecTS == InitRegress /\ [][RegressCall]_vars

\* the pairs i < j of C indices whose light values differ
UnequalPairs(W) ==
  {p \in (0..(WinLen - 1)) \X (0..(WinLen - 1)) :
     p[1] < p[2] /\ W[p[1] + 1] # W[p[2] + 1]}

====
